---- MODULE Spec2Model ----
(***************************************************************************)
(* PresentLM: the playback coordinator (core/temporal_sync.py driven by    *)
(* core/interaction_handler.py), the background audio generation of        *)
(* ui/app.py and the benchmark log (utils/benchmark.py).                   *)
(*                                                                         *)
(* Three specifications share the module, one per subsystem:               *)
(*   SpecSync   the coordinator, its playback worker threads and the mixer *)
(*   SpecAudio  process_presentation, its background worker and the page   *)
(*   SpecBench  the benchmark tracker, its threads and its snapshot file   *)
(* Each leaves the variables of the other two untouched.                   *)
(*                                                                         *)
(* Variables starting with h_ are history variables: they record what the  *)
(* last step was and the state it started from, so that a property of a    *)
(* transition can be read off a single state.  No action's guard or effect *)
(* on program state reads them.                                            *)
(***************************************************************************)
EXTENDS Integers, Sequences, FiniteSets, Bags, TLC

\* ------------------------------------------------------------------ bounds
\* Largest number of audio segments handed to a TemporalSynchronizer.
MaxSlides == 2
\* Largest number of playback threads alive at once (Play starts one each time).
MaxWorkers == 1
\* The same where only Play and Stop drive the coordinator.
MaxThreads == 2
\* Largest length of the Question-Answer history.
MaxHistory == 1
\* Largest number of narrations handed to the background audio generation.
MaxNarrations == 3
\* Largest reading of time.time() in the benchmark log.
MaxClock == 1
\* Largest number of events in a benchmark tracker's list.
MaxEvents == 2
\* Largest number of slides in a session handed to save_presentation_data.
MaxDeck == 2
\* Largest number of answered questions between two clear_history calls.
MaxQuestions == 5
\* Largest number of clips of a presentation played through with auto-advance.
MaxClips == 4

\* --------------------------------------------------------------- constants
\* conversation_history[-3:]: the entries a prompt includes.
PromptWindow == 3

VARIABLES
    \* --- TemporalSynchronizer (temporal_sync.py:29-58)
    num_segments,       \* len(self.audio_segments)
    auto_advance,       \* self.auto_advance
    current_slide,      \* self.state.current_slide
    is_playing,         \* self.state.is_playing
    is_paused,          \* self.state.is_paused
    in_question_mode,   \* self.state.in_question_mode
    stop_event,         \* self._stop_event (set = TRUE)
    pause_event,        \* self._pause_event (set = TRUE)
    workers,            \* bag of live _playback_loop threads, each [pc, idx]
    music,              \* pygame.mixer.music: "idle", "playing" or "paused"
    busy_when_paused,   \* what get_busy() answers for a paused stream (pygame build)
    thread_cap,         \* how many playback threads a behaviour lets be alive at once
    conversation_history, \* QuestionHandler.conversation_history
    h_last,             \* history: the last step, [op, pre, k]
    h_q,                \* history: slide of a pending interrupt issued while Playing, or 0
    h_qp,               \* history: the state a pending interrupt was issued in, or "none"
    h_run               \* history: since the last Play, the slides the workers set (each
                        \* with its on_slide_change call) and the on_presentation_end calls

syncVars == <<num_segments, auto_advance, current_slide, is_playing, is_paused,
              in_question_mode, stop_event, pause_event, workers, music,
              busy_when_paused, thread_cap, conversation_history, h_last, h_q, h_qp,
              h_run>>

VARIABLES
    \* --- process_presentation and show_presentation_page (ui/app.py)
    test_mode,          \* the test_mode argument of process_presentation
    num_narrations,     \* len(narrations)
    main_pc,            \* where the main (Streamlit) thread is
    audio_ready,        \* st.session_state.audio_ready
    current_slide_idx,  \* st.session_state.current_slide_idx, 0-based
    audio_generation_complete, \* st.session_state.audio_generation_complete
    presentation_loaded, \* st.session_state.presentation_loaded
    bg_pc,              \* where generate_audio_background is
    bg_idx,             \* its loop index, 1-based
    bg_complete,        \* the complete argument of the save_audio_progress under way
    bg_fatal,           \* the outer except clause was entered
    ready_flags,        \* its local ready_flags
    segments_list,      \* the indices i with segments_list[i] not None
    progress_file,      \* <timestamp>_audio_progress.json: Absent, Partial or a record
    audio_files,        \* the slides whose <timestamp>_slide_<n>.mp3 exists
    audio_doc,          \* <timestamp>_audio.json: Absent or the slides it lists
    h_failed,           \* history: the slides whose synthesis call raised
    h_attempted,        \* history: the slides whose synthesis call was made
    h_written,          \* history: the last record the worker wrote, or Absent
    h_loaded            \* history: load_saved_presentation has run

audioVars == <<test_mode, num_narrations, main_pc, audio_ready, current_slide_idx,
               audio_generation_complete, presentation_loaded, bg_pc, bg_idx,
               bg_complete, bg_fatal, ready_flags, segments_list, progress_file,
               audio_files, audio_doc, h_failed, h_attempted, h_written, h_loaded>>

VARIABLES
    \* --- BenchmarkTracker (utils/benchmark.py:38-51) and its snapshot file
    clock,              \* time.time()
    events,             \* self.events
    start_times,        \* self._start_times: timer id -> reading of the clock
    auto_save,          \* self._auto_save and self._output_path is set
    lock,               \* the thread holding self._lock, or "free"
    save_pc,            \* per thread: where it is in save_json
    payload,            \* per thread: the payload of its save_json under way
    fd,                 \* per thread: the file its open descriptor refers to
    tmp_file,           \* the file at <filepath>.tmp
    final_file,         \* the file at <filepath>
    hb_last,            \* history: the last call that raised or changed the list
    h_open              \* history: the ids started and not ended since

benchVars == <<clock, events, start_times, auto_save, lock, save_pc, payload,
               fd, tmp_file, final_file, hb_last, h_open>>

VARIABLES
    \* --- the saved session of save/load_presentation_data (utils/helpers.py)
    st_session,         \* the arguments of the last save_presentation_data
    slides_file,        \* <timestamp>_slides.json: Absent or its document
    narrations_file,    \* <timestamp>_narrations.json
    audio_file,         \* <timestamp>_audio.json
    metadata_file,      \* <timestamp>_metadata.json
    st_result           \* what load_presentation_data did since the files last changed

storeVars == <<st_session, slides_file, narrations_file, audio_file,
               metadata_file, st_result>>

VARIABLES
    \* --- QuestionHandler prompts (core/question_handler.py)
    prompt_history,     \* the entries _format_conversation_history put in the last prompt
    h_asked             \* history: the questions answered since the last clear_history

qaVars == <<prompt_history, h_asked>>

vars == <<syncVars, audioVars, benchVars, storeVars, qaVars>>

\* ------------------------------------------------- TemporalSynchronizer state

\* The three PresentationState flags that name the coordinator's state.
StateView == [playing |-> is_playing, paused |-> is_paused,
              qmode |-> in_question_mode]

NoPre == [playing |-> FALSE, paused |-> FALSE, qmode |-> FALSE]

\* The named states of the coordinator, as predicates on the flags.
Idle == ~is_playing /\ ~is_paused /\ ~in_question_mode
Playing == is_playing /\ ~is_paused /\ ~in_question_mode
Paused == is_playing /\ is_paused /\ ~in_question_mode
QuestionMode == is_playing /\ is_paused /\ in_question_mode

Questions == {"q1"}

\* GoToSlide arguments: integers below, inside and above the deck.
SlideInputs == (0 - 1) .. (MaxSlides + 1)

\* h_last.op names the step, h_last.pre holds the flags before it, and
\* h_last.k is the pending interrupt's slide for a resume, the index before
\* the step for a navigation command or Play, and 0 otherwise.
\* A command other than InterruptForQuestion: it ends a pending interrupt.
Note(op) ==
    /\ h_last' = [op |-> op, pre |-> StateView,
                  k |-> CASE op \in {"resume", "resume_q"} -> h_q
                          [] op \in {"next", "prev", "goto", "play"} -> current_slide
                          [] OTHER -> 0]
    /\ h_q' = 0
    /\ h_qp' = "none"
    /\ h_run' = IF op = "play" THEN [slides |-> <<>>, ends |-> 0] ELSE h_run

\* A step that is no coordinator command (worker, mixer, question answering).
NoteInternal(op) ==
    /\ h_last' = [op |-> op, pre |-> NoPre, k |-> 0]
    /\ UNCHANGED <<h_q, h_qp>>
    /\ h_run' = CASE op = "worker_slide" ->
                       [h_run EXCEPT !.slides = Append(@, current_slide')]
                 [] op = "worker_end" -> [h_run EXCEPT !.ends = @ + 1]
                 [] OTHER -> h_run

\* ------------------------------------------------------ pygame.mixer.music
\* The calls the coordinator makes on the one global music stream.
music_pause(m) == IF m = "playing" THEN "paused" ELSE m
music_unpause(m) == IF m = "paused" THEN "playing" ELSE m
music_stop(m) == "idle"
\* get_busy(): TRUE while a stream plays, FALSE when none does; for a paused
\* stream pygame < 2.0.1 answers TRUE and pygame >= 2.0.1 answers FALSE.
get_busy == \/ music = "playing"
            \/ (music = "paused" /\ busy_when_paused)

\* ------------------------------------------- TemporalSynchronizer methods
\* Each method is an action on the coordinator's own variables; the handlers
\* of InteractionHandler below compose them.

\* Mutant: start_presentation leaves the index where it was.
start_presentation_keeps_slide ==
    /\ BagCardinality(workers) < thread_cap
    /\ is_playing' = TRUE
    /\ is_paused' = FALSE
    /\ stop_event' = FALSE
    /\ workers' = workers (+) SetToBag({[pc |-> "loop", idx |-> 1]})
    /\ UNCHANGED <<current_slide, in_question_mode, pause_event, music>>

start_presentation ==
    /\ BagCardinality(workers) < thread_cap
    /\ current_slide' = 1
    /\ is_playing' = TRUE
    /\ is_paused' = FALSE
    /\ stop_event' = FALSE
    /\ workers' = workers (+) SetToBag({[pc |-> "loop", idx |-> 1]})
    /\ UNCHANGED <<in_question_mode, pause_event, music>>

\* Mutant: pause toggles the flag instead of setting it.
pause_toggle ==
    IF is_playing
    THEN /\ is_paused' = ~is_paused
         /\ music' = music_pause(music)
         /\ pause_event' = ~is_paused
    ELSE UNCHANGED <<is_paused, music, pause_event>>

pause ==
    IF is_playing
    THEN /\ is_paused' = TRUE
         /\ music' = music_pause(music)
         /\ pause_event' = TRUE
    ELSE UNCHANGED <<is_paused, music, pause_event>>

resume ==
    IF is_paused
    THEN /\ is_paused' = FALSE
         /\ music' = music_unpause(music)
         /\ pause_event' = FALSE
    ELSE UNCHANGED <<is_paused, music, pause_event>>

\* join(timeout=2.0) returns whether or not the worker has exited: the steps
\* the worker takes after this action are the ones it takes during or after
\* the join.
stop ==
    /\ is_playing' = FALSE
    /\ stop_event' = TRUE
    /\ music' = music_stop(music)
    /\ UNCHANGED <<current_slide, is_paused, in_question_mode, pause_event, workers>>

\* Mutant: next_slide without its bound check.
next_slide_unclamped == current_slide' = current_slide + 1

next_slide ==
    IF current_slide < num_segments
    THEN current_slide' = current_slide + 1
    ELSE UNCHANGED current_slide

previous_slide ==
    IF current_slide > 1
    THEN current_slide' = current_slide - 1
    ELSE UNCHANGED current_slide

go_to_slide(slide_number) ==
    IF 1 <= slide_number /\ slide_number <= num_segments
    THEN current_slide' = slide_number
    ELSE UNCHANGED current_slide

interrupt_for_question ==
    /\ in_question_mode' = TRUE
    /\ pause

resume_after_question ==
    /\ in_question_mode' = FALSE
    /\ resume

\* QuestionHandler.clear_history
clear_history == conversation_history' = <<>>

\* QuestionHandler.answer_question: one more QuestionAnswer at the end.
answer_question(question) ==
    conversation_history' = Append(conversation_history, question)

\* ----------------------------------------------- InteractionHandler events
\* What no coordinator step changes: the deck, the pygame build, and the
\* variables of the other subsystems.
syncConfig == <<num_segments, busy_when_paused, thread_cap, audioVars, benchVars,
                storeVars, qaVars>>

Play ==
    /\ start_presentation
    /\ Note("play")
    /\ UNCHANGED <<syncConfig, auto_advance, conversation_history>>

Pause ==
    /\ pause
    /\ Note("pause")
    /\ UNCHANGED <<syncConfig, auto_advance, conversation_history, current_slide,
                   is_playing, in_question_mode, stop_event, workers>>

\* TemporalSynchronizer.resume called directly.
Resume ==
    /\ resume
    /\ Note("resume")
    /\ UNCHANGED <<syncConfig, auto_advance, conversation_history, current_slide,
                   is_playing, in_question_mode, stop_event, workers>>

\* TemporalSynchronizer.resume_after_question called directly.
ResumeAfterQuestion ==
    /\ resume_after_question
    /\ Note("resume_q")
    /\ UNCHANGED <<syncConfig, auto_advance, conversation_history, current_slide,
                   is_playing, stop_event, workers>>

\* InteractionHandler._handle_resume: dispatches on the question-mode flag.
HandleResume ==
    /\ IF in_question_mode
       THEN resume_after_question
       ELSE resume /\ UNCHANGED in_question_mode
    /\ Note(IF in_question_mode THEN "resume_q" ELSE "resume")
    /\ UNCHANGED <<syncConfig, auto_advance, conversation_history, current_slide,
                   is_playing, stop_event, workers>>

\* InteractionHandler._handle_stop
Stop ==
    /\ stop
    /\ clear_history
    /\ Note("stop")
    /\ UNCHANGED <<syncConfig, auto_advance>>

NextSlide ==
    /\ next_slide
    /\ Note("next")
    /\ UNCHANGED <<syncConfig, auto_advance, conversation_history, is_playing,
                   is_paused, in_question_mode, stop_event, pause_event, workers, music>>

PreviousSlide ==
    /\ previous_slide
    /\ Note("prev")
    /\ UNCHANGED <<syncConfig, auto_advance, conversation_history, is_playing,
                   is_paused, in_question_mode, stop_event, pause_event, workers, music>>

\* InteractionHandler._handle_go_to_slide: a falsy slide_number (0, None) is dropped.
GoToSlide(slide_number) ==
    /\ IF slide_number # 0
       THEN go_to_slide(slide_number)
       ELSE UNCHANGED current_slide
    /\ Note("goto")
    /\ UNCHANGED <<syncConfig, auto_advance, conversation_history, is_playing,
                   is_paused, in_question_mode, stop_event, pause_event, workers, music>>

\* InteractionHandler._handle_text_question: an empty question is dropped,
\* any other interrupts the presentation.
AskQuestion(question) ==
    /\ IF question = ""
       THEN UNCHANGED <<in_question_mode, is_paused, music, pause_event>>
       ELSE interrupt_for_question
    /\ h_last' = [op |-> IF question = "" THEN "no_question" ELSE "interrupt",
                  pre |-> StateView, k |-> 0]
    /\ h_q' = IF question # "" /\ Playing THEN current_slide ELSE h_q
    /\ h_qp' = CASE question # "" /\ Playing -> "Playing"
                [] question # "" /\ Paused -> "Paused"
                [] question # "" /\ Idle -> "none"
                [] OTHER -> h_qp
    /\ UNCHANGED h_run
    /\ UNCHANGED <<syncConfig, auto_advance, conversation_history, current_slide,
                   is_playing, stop_event, workers>>

\* InteractionHandler.set_auto_advance
SetAutoAdvance(enabled) ==
    /\ auto_advance # enabled
    /\ auto_advance' = enabled
    /\ NoteInternal("set_auto")
    /\ UNCHANGED <<syncConfig, conversation_history, current_slide, is_playing,
                   is_paused, in_question_mode, stop_event, pause_event, workers, music>>

\* The application answers a question (ui/app.py:1075).
AnswerQuestion(question) ==
    /\ Len(conversation_history) < MaxHistory
    /\ answer_question(question)
    /\ NoteInternal("answer")
    /\ UNCHANGED <<syncConfig, auto_advance, current_slide, is_playing, is_paused,
                   in_question_mode, stop_event, pause_event, workers, music>>

\* ------------------------------------------------- the playback worker
\* _playback_loop, one step per access to shared state.  A thread is a record
\* [pc, idx]: idx is the loop's slide_idx, pc the statement it is about to run.
Replace(w, w2) == (workers (-) SetToBag({w})) (+) SetToBag({w2})
Exit(w) == workers (-) SetToBag({w})

\* for slide_idx, segment in enumerate(...): if self._stop_event.is_set(): break
WorkerLoop(w) ==
    /\ w.pc = "loop"
    /\ workers' = IF w.idx > num_segments \/ stop_event
                  THEN Replace(w, [pc |-> "finish", idx |-> w.idx])
                  ELSE Replace(w, [pc |-> "set_slide", idx |-> w.idx])
    /\ NoteInternal("worker")
    /\ UNCHANGED <<syncConfig, auto_advance, conversation_history, current_slide,
                   is_playing, is_paused, in_question_mode, stop_event, pause_event, music>>

\* self.state.current_slide = slide_idx; on_slide_change(slide_idx)
WorkerSetSlide(w) ==
    /\ w.pc = "set_slide"
    /\ current_slide' = w.idx
    /\ workers' = Replace(w, [pc |-> "play", idx |-> w.idx])
    /\ NoteInternal("worker_slide")
    /\ UNCHANGED <<syncConfig, auto_advance, conversation_history, is_playing,
                   is_paused, in_question_mode, stop_event, pause_event, music>>

\* if not self.auto_advance: _play_audio; break / else: _play_audio.
\* _play_audio swallows pygame.error, leaving the stream as it was.
WorkerPlay(w) ==
    /\ w.pc = "play"
    /\ \E loaded \in BOOLEAN : music' = IF loaded THEN "playing" ELSE music
    /\ workers' = IF auto_advance
                  THEN Replace(w, [pc |-> "busy", idx |-> w.idx])
                  ELSE Replace(w, [pc |-> "finish", idx |-> w.idx])
    /\ NoteInternal("worker")
    /\ UNCHANGED <<syncConfig, auto_advance, conversation_history, current_slide,
                   is_playing, is_paused, in_question_mode, stop_event, pause_event>>

\* Mutant: the loop moves on by two slides.
WorkerBusy_skips_slide(w) ==
    /\ w.pc = "busy"
    /\ workers' = IF get_busy
                  THEN Replace(w, [pc |-> "chk_stop", idx |-> w.idx])
                  ELSE Replace(w, [pc |-> "loop", idx |-> w.idx + 2])
    /\ NoteInternal("worker")
    /\ UNCHANGED <<syncConfig, auto_advance, conversation_history, current_slide,
                   is_playing, is_paused, in_question_mode, stop_event, pause_event, music>>

\* while pygame.mixer.music.get_busy(): ... ; the loop's end moves to the next slide
WorkerBusy(w) ==
    /\ w.pc = "busy"
    /\ workers' = IF get_busy
                  THEN Replace(w, [pc |-> "chk_stop", idx |-> w.idx])
                  ELSE Replace(w, [pc |-> "loop", idx |-> w.idx + 1])
    /\ NoteInternal("worker")
    /\ UNCHANGED <<syncConfig, auto_advance, conversation_history, current_slide,
                   is_playing, is_paused, in_question_mode, stop_event, pause_event, music>>

\* if self._stop_event.is_set(): pygame.mixer.music.stop(); return
\* if self._pause_event.is_set(): self._pause_event.wait()
\* time.sleep(0.1)
\* Event.wait() returns at once when the event is set, and is not called when
\* it is clear: the pause check never blocks and changes nothing, so it is part
\* of this step.
WorkerCheckStop(w) ==
    /\ w.pc = "chk_stop"
    /\ IF stop_event
       THEN /\ music' = music_stop(music)
            /\ workers' = Exit(w)
       ELSE /\ workers' = Replace(w, [pc |-> "busy", idx |-> w.idx])
            /\ UNCHANGED music
    /\ NoteInternal("worker")
    /\ UNCHANGED <<syncConfig, auto_advance, conversation_history, current_slide,
                   is_playing, is_paused, in_question_mode, stop_event, pause_event>>

\* self.state.is_playing = False; on_presentation_end()
WorkerFinish(w) ==
    /\ w.pc = "finish"
    /\ is_playing' = FALSE
    /\ workers' = Exit(w)
    /\ NoteInternal("worker_end")
    /\ UNCHANGED <<syncConfig, auto_advance, conversation_history, current_slide,
                   is_paused, in_question_mode, stop_event, pause_event, music>>

\* The stream reaches the end of the clip.
ClipEnds ==
    /\ music = "playing"
    /\ music' = "idle"
    /\ NoteInternal("clip_end")
    /\ UNCHANGED <<syncConfig, auto_advance, conversation_history, current_slide,
                   is_playing, is_paused, in_question_mode, stop_event, pause_event, workers>>

\* TemporalSynchronizer.__init__ and QuestionHandler.__init__
SyncInit ==
    /\ num_segments \in 1 .. MaxSlides
    /\ auto_advance \in BOOLEAN
    /\ busy_when_paused \in BOOLEAN
    /\ thread_cap = MaxWorkers
    /\ current_slide = 1
    /\ is_playing = FALSE
    /\ is_paused = FALSE
    /\ in_question_mode = FALSE
    /\ stop_event = FALSE
    /\ pause_event = FALSE
    /\ workers = EmptyBag
    /\ music = "idle"
    /\ conversation_history = <<>>
    /\ h_last = [op |-> "init", pre |-> NoPre, k |-> 0]
    /\ h_q = 0
    /\ h_qp = "none"
    /\ h_run = [slides |-> <<>>, ends |-> 0]

SyncNext ==
    \/ Play
    \/ Pause
    \/ Resume
    \/ ResumeAfterQuestion
    \/ HandleResume
    \/ Stop
    \/ NextSlide
    \/ PreviousSlide
    \/ \E n \in SlideInputs : GoToSlide(n)
    \/ \E q \in Questions \cup {""} : AskQuestion(q)
    \/ \E b \in BOOLEAN : SetAutoAdvance(b)
    \/ \E q \in Questions : AnswerQuestion(q)
    \/ ClipEnds
    \/ \E w \in BagToSet(workers) :
          \/ WorkerLoop(w)
          \/ WorkerSetSlide(w)
          \/ WorkerPlay(w)
          \/ WorkerBusy(w)
          \/ WorkerCheckStop(w)
          \/ WorkerFinish(w)

\* ------------------------------------------- uninterrupted auto-advance
\* Play is issued while no playback thread is alive, auto-advance is on, and
\* nothing else is asked of the coordinator: only the worker and the stream
\* run.
AutoPlay ==
    /\ workers = EmptyBag
    /\ Play

AutoInit ==
    /\ num_segments \in 1 .. MaxClips
    /\ auto_advance = TRUE
    /\ busy_when_paused \in BOOLEAN
    /\ thread_cap = MaxWorkers
    /\ current_slide = 1
    /\ is_playing = FALSE
    /\ is_paused = FALSE
    /\ in_question_mode = FALSE
    /\ stop_event = FALSE
    /\ pause_event = FALSE
    /\ workers = EmptyBag
    /\ music = "idle"
    /\ conversation_history = <<>>
    /\ h_last = [op |-> "init", pre |-> NoPre, k |-> 0]
    /\ h_q = 0
    /\ h_qp = "none"
    /\ h_run = [slides |-> <<>>, ends |-> 0]

AutoNext ==
    \/ AutoPlay
    \/ ClipEnds
    \/ \E w \in BagToSet(workers) : WorkerLoop(w)
    \/ \E w \in BagToSet(workers) : WorkerSetSlide(w)
    \/ \E w \in BagToSet(workers) : WorkerPlay(w)
    \/ \E w \in BagToSet(workers) : WorkerBusy(w)
    \/ \E w \in BagToSet(workers) : WorkerCheckStop(w)
    \/ \E w \in BagToSet(workers) : WorkerFinish(w)

\* ------------------------------------------------- Play and Stop only
\* start_presentation sets no limit on the threads it starts; here as many as
\* MaxThreads may be alive at once, and only Play and Stop are asked of the
\* coordinator.
ThreadsInit ==
    /\ num_segments \in 1 .. MaxSlides
    /\ auto_advance \in BOOLEAN
    /\ busy_when_paused \in BOOLEAN
    /\ thread_cap = MaxThreads
    /\ current_slide = 1
    /\ is_playing = FALSE
    /\ is_paused = FALSE
    /\ in_question_mode = FALSE
    /\ stop_event = FALSE
    /\ pause_event = FALSE
    /\ workers = EmptyBag
    /\ music = "idle"
    /\ conversation_history = <<>>
    /\ h_last = [op |-> "init", pre |-> NoPre, k |-> 0]
    /\ h_q = 0
    /\ h_qp = "none"
    /\ h_run = [slides |-> <<>>, ends |-> 0]

ThreadsNext ==
    \/ Play
    \/ Stop
    \/ ClipEnds
    \/ \E w \in BagToSet(workers) : WorkerLoop(w)
    \/ \E w \in BagToSet(workers) : WorkerSetSlide(w)
    \/ \E w \in BagToSet(workers) : WorkerPlay(w)
    \/ \E w \in BagToSet(workers) : WorkerBusy(w)
    \/ \E w \in BagToSet(workers) : WorkerCheckStop(w)
    \/ \E w \in BagToSet(workers) : WorkerFinish(w)

\* The playback thread keeps being scheduled, and every clip ends.
AutoFairness ==
    /\ WF_vars(ClipEnds)
    /\ WF_vars(\E w \in BagToSet(workers) :
                  \/ WorkerLoop(w) \/ WorkerSetSlide(w) \/ WorkerPlay(w)
                  \/ WorkerBusy(w) \/ WorkerCheckStop(w) \/ WorkerFinish(w))

\* ====================================================================
\* Background audio generation (ui/app.py)
\* ====================================================================
Slides == 1 .. num_narrations
AllFalse == [i \in Slides |-> FALSE]
AllTrue == [i \in Slides |-> TRUE]
\* A file is absent, partly written, or holds one complete JSON document.
Absent == [kind |-> "absent"]
Partial == [kind |-> "partial"]
ProgressRecord(ready, complete) ==
    [kind |-> "record", ready |-> ready, complete |-> complete]
AudioDocument(slides) == [kind |-> "document", slides |-> slides]
IsRecord(f) == f.kind = "record"

\* What no step of the audio generation changes: the inputs of
\* process_presentation and the variables of the other subsystems.
audioInputs == <<test_mode, num_narrations, syncVars, benchVars, storeVars, qaVars>>
\* The same with the page's slide index, which only navigation and
\* load_saved_presentation set.
audioConfig == <<audioInputs, current_slide_idx>>

\* helpers.save_json on the progress file: open(file_path, 'w') truncates the
\* file in place, json.dump then fills it.  Between the two the file holds no
\* complete JSON document.
save_json_open(f) == Partial
\* When the poller unlinked the path after the open, the dump goes to the
\* unlinked file and the path stays absent.
save_json_dump(f, data) == IF f = Partial THEN data ELSE f

\* load_audio_progress: the record, or None ("absent") when the file is
\* missing or does not parse; a file that does not parse is unlinked.
load_audio_progress_data == IF IsRecord(progress_file) THEN progress_file ELSE Absent
load_audio_progress_file == IF progress_file = Partial THEN Absent ELSE progress_file

\* process_presentation up to the start of the background thread
\* (ui/app.py:331-398).
MainStart ==
    /\ main_pc = "start"
    /\ audio_generation_complete' = test_mode
    /\ IF test_mode
       THEN /\ audio_ready' = AllTrue
            /\ presentation_loaded' = TRUE
            /\ main_pc' = "save_data"
            /\ UNCHANGED <<progress_file, bg_pc>>
       ELSE /\ audio_ready' = AllFalse
            /\ progress_file' = ProgressRecord(AllFalse, FALSE)
            /\ bg_pc' = "tts_init"
            /\ main_pc' = "wait_first"
            /\ UNCHANGED presentation_loaded
    /\ UNCHANGED <<audioConfig, bg_idx, bg_complete, bg_fatal,
                   ready_flags, segments_list, audio_files, audio_doc,
                   h_failed, h_attempted, h_written, h_loaded>>

\* One round of "while not first_slide_ready" (ui/app.py:402-410).
MainPollFirst ==
    /\ main_pc = "wait_first"
    /\ progress_file' = load_audio_progress_file
    /\ LET data == load_audio_progress_data
       IN IF IsRecord(data) /\ data.ready[1]
          THEN /\ presentation_loaded' = TRUE
               /\ main_pc' = "save_data"
          ELSE UNCHANGED <<presentation_loaded, main_pc>>
    /\ UNCHANGED <<audioConfig, audio_ready, audio_generation_complete,
                   bg_pc, bg_idx, bg_complete, bg_fatal, ready_flags, segments_list,
                   audio_files, audio_doc, h_failed, h_attempted, h_written, h_loaded>>

\* save_presentation_data(..., audio_segments=[], ...) (ui/app.py:413-434,
\* helpers.py:50-52): the audio document is written with an empty list.
MainSaveData ==
    /\ main_pc = "save_data"
    /\ audio_doc' = AudioDocument({})
    /\ main_pc' = "page"
    /\ UNCHANGED <<audioConfig, audio_ready, audio_generation_complete,
                   presentation_loaded, bg_pc, bg_idx, bg_complete, bg_fatal,
                   ready_flags, segments_list, progress_file, audio_files,
                   h_failed, h_attempted, h_written, h_loaded>>

\* One render of show_presentation_page that checks the progress file
\* (ui/app.py:664-702).
PagePoll ==
    /\ main_pc = "page"
    /\ ~audio_generation_complete
    /\ LET data == load_audio_progress_data
       IN IF IsRecord(data)
          THEN /\ audio_ready' =
                    [i \in Slides |->
                        IF data.ready[i] /\ ~audio_ready[i] /\ i \in audio_files
                        THEN TRUE ELSE audio_ready[i]]
               /\ audio_generation_complete' = data.complete
               /\ progress_file' = IF data.complete THEN Absent ELSE progress_file
          ELSE /\ progress_file' = load_audio_progress_file
               /\ UNCHANGED <<audio_ready, audio_generation_complete>>
    /\ UNCHANGED <<audioConfig, main_pc, presentation_loaded, bg_pc,
                   bg_idx, bg_complete, bg_fatal, ready_flags, segments_list,
                   audio_files, audio_doc, h_failed, h_attempted, h_written, h_loaded>>

\* load_saved_presentation of the session just saved (ui/app.py:443-480):
\* every slide is marked ready.
LoadSavedPresentation ==
    /\ main_pc = "page"
    /\ ~h_loaded
    /\ audio_ready' = AllTrue
    /\ audio_generation_complete' = TRUE
    /\ presentation_loaded' = TRUE
    /\ h_loaded' = TRUE
    /\ current_slide_idx' = 0
    /\ UNCHANGED <<audioInputs, main_pc, bg_pc, bg_idx, bg_complete,
                   bg_fatal, ready_flags, segments_list, progress_file, audio_files,
                   audio_doc, h_failed, h_attempted, h_written>>

\* ------------------------------------------ generate_audio_background
bgFrame == <<audioConfig, main_pc, audio_ready,
             audio_generation_complete, presentation_loaded, h_loaded>>

\* tts = TTSEngine(voice=tts_voice) (ui/app.py:362): it may raise, which the
\* outer except clause turns into a last save with complete = True.
BgInit ==
    /\ bg_pc = "tts_init"
    /\ \E raised \in BOOLEAN :
          /\ bg_fatal' = raised
          /\ bg_complete' = raised
          /\ bg_pc' = IF raised THEN "save_open" ELSE "synth"
    /\ UNCHANGED <<bgFrame, bg_idx, ready_flags, segments_list, progress_file,
                   audio_files, audio_doc, h_failed, h_attempted, h_written>>

\* What one synthesis call can do: return after writing the clip, raise
\* before writing it, or raise after writing it (end_timer's auto-persist
\* raising inside generate_audio, tts_engine.py:121-139).
SynthOutcomes == {"ok", "raise", "raise_after_write"}

\* Mutant: the flag is set before the synthesis call and the except clause
\* does not clear it.
BgSynth_flag_before_call ==
    /\ bg_pc = "synth"
    /\ \E outcome \in SynthOutcomes :
          /\ audio_files' = IF outcome = "raise"
                            THEN audio_files ELSE audio_files \cup {bg_idx}
          /\ segments_list' = IF outcome = "ok"
                              THEN segments_list \cup {bg_idx} ELSE segments_list
          /\ ready_flags' = [ready_flags EXCEPT ![bg_idx] = TRUE]
          /\ h_failed' = IF outcome = "ok" THEN h_failed ELSE h_failed \cup {bg_idx}
    /\ h_attempted' = h_attempted \cup {bg_idx}
    /\ bg_complete' = FALSE
    /\ bg_pc' = "save_open"
    /\ UNCHANGED <<bgFrame, bg_idx, bg_fatal, progress_file, audio_doc, h_written>>

\* One iteration of the loop up to its save_audio_progress call
\* (ui/app.py:364-382).
BgSynth ==
    /\ bg_pc = "synth"
    /\ \E outcome \in SynthOutcomes :
          /\ audio_files' = IF outcome = "raise"
                            THEN audio_files ELSE audio_files \cup {bg_idx}
          /\ segments_list' = IF outcome = "ok"
                              THEN segments_list \cup {bg_idx} ELSE segments_list
          /\ ready_flags' = [ready_flags EXCEPT ![bg_idx] = (outcome = "ok")]
          /\ h_failed' = IF outcome = "ok" THEN h_failed ELSE h_failed \cup {bg_idx}
    /\ h_attempted' = h_attempted \cup {bg_idx}
    /\ bg_complete' = FALSE
    /\ bg_pc' = "save_open"
    /\ UNCHANGED <<bgFrame, bg_idx, bg_fatal, progress_file, audio_doc, h_written>>

\* save_audio_progress, first half: open(progress_file, 'w').
BgSaveOpen ==
    /\ bg_pc = "save_open"
    /\ progress_file' = save_json_open(progress_file)
    /\ bg_pc' = "save_write"
    /\ UNCHANGED <<bgFrame, bg_idx, bg_complete, bg_fatal, ready_flags,
                   segments_list, audio_files, audio_doc, h_failed, h_attempted,
                   h_written>>

\* Mutant: a slide that failed ends the loop (no per-slide try/except).
BgSaveWrite_stop_on_failure ==
    /\ bg_pc = "save_write"
    /\ progress_file' = save_json_dump(progress_file,
                                       ProgressRecord(ready_flags, bg_complete))
    /\ h_written' = ProgressRecord(ready_flags, bg_complete)
    /\ IF bg_complete
       THEN /\ bg_pc' = IF bg_fatal THEN "done" ELSE "audio_doc"
            /\ UNCHANGED <<bg_idx, bg_complete>>
       ELSE IF bg_idx < num_narrations /\ ready_flags[bg_idx]
            THEN /\ bg_idx' = bg_idx + 1
                 /\ bg_pc' = "synth"
                 /\ UNCHANGED bg_complete
            ELSE /\ bg_complete' = TRUE
                 /\ bg_pc' = "save_open"
                 /\ UNCHANGED bg_idx
    /\ UNCHANGED <<bgFrame, bg_fatal, ready_flags, segments_list, audio_files,
                   audio_doc, h_failed, h_attempted>>

\* save_audio_progress, second half: json.dump and close; then the loop goes
\* on, or marks the batch complete (ui/app.py:385), or moves to the audio
\* document, or (after the outer except clause) ends.
BgSaveWrite ==
    /\ bg_pc = "save_write"
    /\ progress_file' = save_json_dump(progress_file,
                                       ProgressRecord(ready_flags, bg_complete))
    /\ h_written' = ProgressRecord(ready_flags, bg_complete)
    /\ IF bg_complete
       THEN /\ bg_pc' = IF bg_fatal THEN "done" ELSE "audio_doc"
            /\ UNCHANGED <<bg_idx, bg_complete>>
       ELSE IF bg_idx < num_narrations
            THEN /\ bg_idx' = bg_idx + 1
                 /\ bg_pc' = "synth"
                 /\ UNCHANGED bg_complete
            ELSE /\ bg_complete' = TRUE
                 /\ bg_pc' = "save_open"
                 /\ UNCHANGED bg_idx
    /\ UNCHANGED <<bgFrame, bg_fatal, ready_flags, segments_list, audio_files,
                   audio_doc, h_failed, h_attempted>>

\* save_json({"audio_segments": [...]}, <timestamp>_audio.json) (ui/app.py:389-391)
BgSaveAudioDoc ==
    /\ bg_pc = "audio_doc"
    /\ audio_doc' = AudioDocument(segments_list)
    /\ bg_pc' = "done"
    /\ UNCHANGED <<bgFrame, bg_idx, bg_complete, bg_fatal, ready_flags,
                   segments_list, progress_file, audio_files, h_failed,
                   h_attempted, h_written>>

AudioInit ==
    /\ test_mode \in BOOLEAN
    /\ num_narrations \in 1 .. MaxNarrations
    /\ main_pc = "start"
    /\ audio_ready = [i \in 1 .. num_narrations |-> FALSE]
    /\ current_slide_idx = 0
    /\ audio_generation_complete = FALSE
    /\ presentation_loaded = FALSE
    /\ bg_pc = "idle"
    /\ bg_idx = 1
    /\ bg_complete = FALSE
    /\ bg_fatal = FALSE
    /\ ready_flags = [i \in 1 .. num_narrations |-> FALSE]
    /\ segments_list = {}
    /\ progress_file = Absent
    /\ audio_files = {}
    /\ audio_doc = Absent
    /\ h_failed = {}
    /\ h_attempted = {}
    /\ h_written = Absent
    /\ h_loaded = FALSE

\* ------------------------------------ navigation on the presentation page
\* A click sets a flag in its on_click callback and the rerun it triggers
\* handles the flag before anything is drawn; the two are one step here.
navFrame == <<audioInputs, main_pc, audio_ready, audio_generation_complete,
              presentation_loaded, bg_pc, bg_idx, bg_complete, bg_fatal,
              ready_flags, segments_list, progress_file, audio_files, audio_doc,
              h_failed, h_attempted, h_written, h_loaded>>

\* The Next button, drawn enabled when the next slide's flag is set
\* (ui/app.py:1189-1196), and the nav_next branch (ui/app.py:721-728).
NavNext ==
    /\ main_pc = "page"
    /\ current_slide_idx < num_narrations - 1
    /\ audio_ready[current_slide_idx + 2]
    /\ current_slide_idx' = current_slide_idx + 1
    /\ UNCHANGED navFrame

\* The Previous button, drawn enabled on every slide but the first
\* (ui/app.py:1124-1131), and the nav_prev branch (ui/app.py:730-737).
NavPrev ==
    /\ main_pc = "page"
    /\ current_slide_idx > 0
    /\ current_slide_idx' = current_slide_idx - 1
    /\ UNCHANGED navFrame

\* The slide selector's on_change callback.
on_slide_select(selected_idx) ==
    /\ main_pc = "page"
    /\ current_slide_idx' =
           IF selected_idx # current_slide_idx /\ audio_ready[selected_idx + 1]
           THEN selected_idx ELSE current_slide_idx
    /\ UNCHANGED navFrame

\* The current slide's clip plays to its end: the page's script clicks the
\* hidden auto-advance button (ui/app.py:1207-1217), and the advance_slide
\* branch moves on (ui/app.py:711-718).  Outside test mode, and until a saved
\* session is loaded, a slide has its audio element exactly when its
\* audio_ready flag is set (ui/app.py:688-689, 1136-1138).
AdvanceSlide ==
    /\ main_pc = "page"
    /\ ~test_mode /\ ~h_loaded
    /\ audio_ready[current_slide_idx + 1]
    /\ current_slide_idx < num_narrations - 1
    /\ current_slide_idx' = current_slide_idx + 1
    /\ UNCHANGED navFrame

AudioNext ==
    \/ MainStart
    \/ MainPollFirst
    \/ MainSaveData
    \/ PagePoll
    \/ LoadSavedPresentation
    \/ BgInit
    \/ BgSynth
    \/ BgSaveOpen
    \/ BgSaveWrite
    \/ BgSaveAudioDoc

\* Generation and the page, with the page's navigation.
NavStep ==
    \/ MainStart
    \/ MainPollFirst
    \/ MainSaveData
    \/ PagePoll
    \/ LoadSavedPresentation
    \/ BgInit
    \/ BgSynth
    \/ BgSaveOpen
    \/ BgSaveWrite
    \/ BgSaveAudioDoc
    \/ NavNext
    \/ NavPrev
    \/ \E selected_idx \in 0 .. num_narrations - 1 : on_slide_select(selected_idx)
    \/ AdvanceSlide

\* ====================================================================
\* The benchmark log (utils/benchmark.py)
\* ====================================================================
\* The main (Streamlit) thread and the background audio worker share the
\* one tracker that get_benchmark_tracker returns.
Threads == {"main", "worker"}
TimerIds == {"t1", "t2"}
\* The durations handed to record_event.
RecordDurations == {1}

\* What no step of the benchmark log changes.
benchConfig == <<syncVars, audioVars, storeVars, qaVars>>

BenchmarkEvent(component, duration_seconds) ==
    [component |-> component, duration_seconds |-> duration_seconds]

\* to_dict: the payload of a snapshot.
to_dict(evts) == [kind |-> "snapshot", events |-> evts]

NoPayload == [kind |-> "none"]

IsPrefix(s, t) == Len(s) <= Len(t) /\ SubSeq(t, 1, Len(s)) = s

BenchNote(op, raised) == hb_last' = [op |-> op, raised |-> raised]

\* Mutant: the event goes to the head of the list.
prepend_event(ev) == <<ev>> \o events

\* self.events.append(event)
append_event(ev) == Append(events, ev)

\* Mutant: end_timer keeps the start time.
keep_start_time(timer_id) == start_times

\* del self._start_times[timer_id]
del_start_time(timer_id) ==
    [x \in DOMAIN start_times \ {timer_id} |-> start_times[x]]

\* duration = time.time() - self._start_times[timer_id]
duration_of(timer_id) == clock - start_times[timer_id]

\* _persist_if_configured up to the payload of its save_json: it takes the
\* lock, and with auto-save configured keeps it until save_json returns.
persist_if_configured(t, evts) ==
    IF auto_save
    THEN /\ lock' = t
         /\ payload' = [payload EXCEPT ![t] = to_dict(evts)]
         /\ save_pc' = [save_pc EXCEPT ![t] = "open"]
    ELSE UNCHANGED <<lock, payload, save_pc>>

\* A thread can call into the tracker and take its lock.
Callable(t) == save_pc[t] = "idle" /\ lock = "free"

\* time.time() moves on.  The clock is taken not to be set back while the
\* program runs.
Tick ==
    /\ clock < MaxClock
    /\ clock' = clock + 1
    /\ UNCHANGED <<benchConfig, events, start_times, auto_save, lock, save_pc,
                   payload, fd, tmp_file, final_file, hb_last, h_open>>

ConfigurePersistence(enabled) ==
    /\ Callable("main")
    /\ auto_save' = enabled
    /\ UNCHANGED <<benchConfig, clock, events, start_times, lock, save_pc,
                   payload, fd, tmp_file, final_file, hb_last, h_open>>

StartTimer(t, timer_id) ==
    /\ Callable(t)
    /\ start_times' = [x \in DOMAIN start_times \cup {timer_id} |->
                          IF x = timer_id THEN clock ELSE start_times[x]]
    /\ h_open' = h_open \cup {timer_id}
    /\ UNCHANGED <<benchConfig, clock, events, auto_save, lock, save_pc,
                   payload, fd, tmp_file, final_file, hb_last>>

\* end_timer: the locked section, then _persist_if_configured up to the
\* point where its save_json has its payload.
EndTimer(t, timer_id) ==
    /\ Callable(t)
    /\ Len(events) < MaxEvents
    /\ IF timer_id \notin DOMAIN start_times
       THEN /\ BenchNote("end_timer", TRUE)
            /\ UNCHANGED <<events, start_times, lock, payload, save_pc, h_open>>
       ELSE /\ events' = append_event(BenchmarkEvent("timed", duration_of(timer_id)))
            /\ start_times' = del_start_time(timer_id)
            /\ persist_if_configured(t, events')
            /\ h_open' = h_open \ {timer_id}
            /\ BenchNote("end_timer", FALSE)
    /\ UNCHANGED <<benchConfig, clock, auto_save, fd, tmp_file, final_file>>

RecordEvent(t, duration_seconds) ==
    /\ Callable(t)
    /\ Len(events) < MaxEvents
    /\ events' = append_event(BenchmarkEvent("direct", duration_seconds))
    /\ persist_if_configured(t, events')
    /\ BenchNote("record_event", FALSE)
    /\ UNCHANGED <<benchConfig, clock, start_times, auto_save, fd, tmp_file,
                   final_file, h_open>>

GetSummary(t) ==
    /\ Callable(t)
    /\ UNCHANGED <<benchConfig, clock, events, start_times, auto_save, lock,
                   save_pc, payload, fd, tmp_file, final_file, hb_last, h_open>>

\* An explicit save_json: the payload is taken under the lock, which is
\* released before the file is touched.
SaveJson(t) ==
    /\ Callable(t)
    /\ payload' = [payload EXCEPT ![t] = to_dict(events)]
    /\ save_pc' = [save_pc EXCEPT ![t] = "open"]
    /\ UNCHANGED <<benchConfig, clock, events, start_times, auto_save, lock,
                   fd, tmp_file, final_file, hb_last, h_open>>

\* open(tmp_path, 'w'): the file at the temporary path is created, or the
\* one that is there is truncated.
SaveOpen(t) ==
    /\ save_pc[t] = "open"
    /\ tmp_file' = Partial
    /\ fd' = [fd EXCEPT ![t] = "tmp"]
    /\ save_pc' = [save_pc EXCEPT ![t] = "write"]
    /\ UNCHANGED <<benchConfig, clock, events, start_times, auto_save, lock,
                   payload, final_file, hb_last, h_open>>

\* What a file holds after a payload is written from its start: the payload,
\* unless a longer document was there, whose tail then follows it.
written_over(f, p) ==
    IF f.kind = "snapshot" /\ Len(f.events) > Len(p.events) THEN Partial ELSE p

\* json.dump, flush and close.  The descriptor still refers to the file
\* opened, whatever path that file has by now.
SaveWrite(t) ==
    /\ save_pc[t] = "write"
    /\ tmp_file' = IF fd[t] = "tmp"
                   THEN written_over(tmp_file, payload[t]) ELSE tmp_file
    /\ final_file' = IF fd[t] = "final"
                     THEN written_over(final_file, payload[t]) ELSE final_file
    /\ fd' = [fd EXCEPT ![t] = "none"]
    /\ save_pc' = [save_pc EXCEPT ![t] = "replace"]
    /\ UNCHANGED <<benchConfig, clock, events, start_times, auto_save, lock,
                   payload, hb_last, h_open>>

\* tmp_path.replace(filepath), which raises FileNotFoundError when the
\* temporary path is gone; then save_json returns or raises, and an
\* auto-persist releases the lock.  Nothing between save_json and the caller
\* of end_timer or record_event catches what an auto-persist raises.
SaveReplace(t) ==
    /\ save_pc[t] = "replace"
    /\ IF tmp_file = Absent
       THEN /\ BenchNote(IF lock = t THEN "persist_if_configured" ELSE "save_json",
                         TRUE)
            /\ UNCHANGED <<tmp_file, final_file, fd>>
       ELSE /\ UNCHANGED hb_last
            /\ final_file' = tmp_file
            /\ tmp_file' = Absent
            /\ fd' = [u \in Threads |->
                        CASE fd[u] = "tmp" -> "final"
                          [] fd[u] = "final" -> "orphan"
                          [] OTHER -> fd[u]]
    /\ lock' = IF lock = t THEN "free" ELSE lock
    /\ payload' = [payload EXCEPT ![t] = NoPayload]
    /\ save_pc' = [save_pc EXCEPT ![t] = "idle"]
    /\ UNCHANGED <<benchConfig, clock, events, start_times, auto_save, h_open>>

\* load_json: json.load raises on a file that is not one document, and open
\* on a missing one; otherwise the list is emptied and refilled from the file.
LoadJson(t) ==
    /\ Callable(t)
    /\ IF final_file.kind = "snapshot"
       THEN /\ events' = final_file.events
            /\ BenchNote("load_json", FALSE)
       ELSE /\ UNCHANGED events
            /\ BenchNote("load_json", TRUE)
    /\ UNCHANGED <<benchConfig, clock, start_times, auto_save, lock, save_pc,
                   payload, fd, tmp_file, final_file, h_open>>

\* reset_benchmark_tracker followed by get_benchmark_tracker: a new tracker.
Reset ==
    /\ \A t \in Threads : save_pc[t] = "idle"
    /\ lock = "free"
    /\ events' = <<>>
    /\ start_times' = <<>>
    /\ auto_save' = FALSE
    /\ h_open' = {}
    /\ BenchNote("reset", FALSE)
    /\ UNCHANGED <<benchConfig, clock, lock, save_pc, payload, fd, tmp_file,
                   final_file>>

\* The process dies at any step: nothing runs any more, the files stay as
\* they are.
Crash ==
    /\ \E t \in Threads : save_pc[t] \notin {"idle", "dead"}
    /\ save_pc' = [t \in Threads |-> "dead"]
    /\ fd' = [t \in Threads |-> "none"]
    /\ UNCHANGED <<benchConfig, clock, events, start_times, auto_save, lock,
                   payload, tmp_file, final_file, hb_last, h_open>>

BenchInit ==
    /\ clock = 0
    /\ events = <<>>
    /\ start_times = <<>>
    /\ auto_save = FALSE
    /\ lock = "free"
    /\ save_pc = [t \in Threads |-> "idle"]
    /\ payload = [t \in Threads |-> NoPayload]
    /\ fd = [t \in Threads |-> "none"]
    /\ tmp_file = Absent
    /\ final_file = Absent
    /\ hb_last = [op |-> "init", raised |-> FALSE]
    /\ h_open = {}

BenchNext ==
    \/ Tick
    \/ \E enabled \in BOOLEAN : ConfigurePersistence(enabled)
    \/ \E t \in Threads, timer_id \in TimerIds : StartTimer(t, timer_id)
    \/ \E t \in Threads, timer_id \in TimerIds : EndTimer(t, timer_id)
    \/ \E d \in RecordDurations : RecordEvent("main", d)
    \/ GetSummary("main")
    \/ SaveJson("main")
    \/ \E t \in Threads : SaveOpen(t)
    \/ \E t \in Threads : SaveWrite(t)
    \/ \E t \in Threads : SaveReplace(t)
    \/ LoadJson("main")
    \/ Reset
    \/ Crash

\* ====================================================================
\* The saved session (utils/helpers.py, Slide, SlideNarration, AudioSegment)
\* ====================================================================
\* What no step of the session store changes.
storeConfig == <<syncVars, audioVars, benchVars, qaVars>>

\* Python values that JSON does not carry as they are.
NoneValue == [t |-> "None"]
Bytes(b) == [t |-> "bytes", v |-> b]
Path(p) == [t |-> "Path", v |-> p]
\* JSON values of the fields that are not plain strings or numbers.
JsonNull == [t |-> "null"]
JsonString(s) == [t |-> "str", v |-> s]

\* The image bytes of the model: none, the empty bytes object, one byte.
ImageValues == {NoneValue, Bytes(<<>>), Bytes(<<1>>)}
NotesValues == {"", "n"}

\* base64.b64encode(...).decode('utf-8') and base64.b64decode on these bytes.
b64encode(b) == IF b = <<>> THEN "" ELSE "AQ=="
b64decode(s) == IF s = "" THEN <<>> ELSE <<1>>

Slide(slide_number, notes, image_data) ==
    [slide_number |-> slide_number, title |-> "t", content |-> "c",
     notes |-> notes, image_data |-> image_data]

\* Slide.to_dict: "if self.image_data" is false for None and for b"".
Slide_to_dict(s) ==
    [slide_number |-> s.slide_number, title |-> s.title, content |-> s.content,
     notes |-> s.notes,
     image_data |-> IF s.image_data # NoneValue /\ s.image_data.v # <<>>
                    THEN JsonString(b64encode(s.image_data.v)) ELSE JsonNull,
     has_image |-> s.image_data # NoneValue]

\* Slide.from_dict: "if data.get('image_data')" is false for null and for "".
Slide_from_dict(d) ==
    [slide_number |-> d.slide_number, title |-> d.title, content |-> d.content,
     notes |-> d.notes,
     image_data |-> IF d.image_data # JsonNull /\ d.image_data.v # ""
                    THEN Bytes(b64decode(d.image_data.v)) ELSE NoneValue]

SlideNarration(slide_number) ==
    [slide_number |-> slide_number, narration_text |-> "text",
     estimated_duration |-> 2]
SlideNarration_to_dict(n) ==
    [slide_number |-> n.slide_number, narration_text |-> n.narration_text,
     estimated_duration |-> n.estimated_duration]
SlideNarration_from_dict(d) ==
    [slide_number |-> d.slide_number, narration_text |-> d.narration_text,
     estimated_duration |-> d.estimated_duration]

AudioSegment(slide_number) ==
    [slide_number |-> slide_number, audio_path |-> Path("clip.mp3"),
     duration |-> 2, text |-> "text"]
\* str(self.audio_path) and Path(data['audio_path'])
AudioSegment_to_dict(a) ==
    [slide_number |-> a.slide_number, audio_path |-> a.audio_path.v,
     duration |-> a.duration, text |-> a.text]
AudioSegment_from_dict(d) ==
    [slide_number |-> d.slide_number, audio_path |-> Path(d.audio_path),
     duration |-> d.duration, text |-> d.text]

\* A document written by helpers.save_json and read back by helpers.load_json.
JsonDocument(data) == [kind |-> "document", data |-> data]

NoSession == [kind |-> "none"]
NoResult == [kind |-> "none"]
Raised == [kind |-> "raised"]

\* The decks handed to save_presentation_data: slide i has number i.
Decks ==
    UNION {[1 .. n -> NotesValues \X ImageValues] : n \in 1 .. MaxDeck}

\* save_presentation_data: four save_json calls.
SavePresentationData ==
    \E deck \in Decks, with_audio \in BOOLEAN, meta_test_mode \in BOOLEAN :
        LET n == Len(deck)
            slides == [i \in 1 .. n |-> Slide(i, deck[i][1], deck[i][2])]
            narrations == [i \in 1 .. n |-> SlideNarration(i)]
            audio_segments == IF with_audio
                              THEN [i \in 1 .. n |-> AudioSegment(i)] ELSE <<>>
            metadata == [num_slides |-> n, test_mode |-> meta_test_mode]
        IN /\ st_session' = [kind |-> "session", slides |-> slides,
                             narrations |-> narrations,
                             audio_segments |-> audio_segments,
                             metadata |-> metadata]
           /\ slides_file' = JsonDocument([i \in DOMAIN slides |-> Slide_to_dict(slides[i])])
           /\ narrations_file' =
                  JsonDocument([i \in DOMAIN narrations |-> SlideNarration_to_dict(narrations[i])])
           /\ audio_file' =
                  JsonDocument(IF audio_segments # <<>>
                               THEN [i \in DOMAIN audio_segments |-> AudioSegment_to_dict(audio_segments[i])]
                               ELSE <<>>)
           /\ metadata_file' = JsonDocument(metadata)
           /\ st_result' = NoResult
           /\ UNCHANGED storeConfig

\* The audio-segments document of a saved session is removed from the data
\* directory.
RemoveAudioDocument ==
    /\ audio_file # Absent
    /\ audio_file' = Absent
    /\ st_result' = NoResult
    /\ UNCHANGED <<storeConfig, st_session, slides_file, narrations_file,
                   metadata_file>>

\* Mutant: the audio document is read without the exists() check.
load_audio_segments_unguarded ==
    IF audio_file = Absent
    THEN Raised
    ELSE [kind |-> "ok", v |-> [i \in DOMAIN audio_file.data |-> AudioSegment_from_dict(audio_file.data[i])]]

\* audio_segments = []; if audio_file.exists(): ... (helpers.py:73-77)
load_audio_segments ==
    IF audio_file = Absent
    THEN [kind |-> "ok", v |-> <<>>]
    ELSE [kind |-> "ok", v |-> [i \in DOMAIN audio_file.data |-> AudioSegment_from_dict(audio_file.data[i])]]

\* load_presentation_data: load_json raises FileNotFoundError on a missing
\* slides, narrations or metadata document.
LoadPresentationData ==
    /\ st_result' =
          IF \/ slides_file = Absent
             \/ narrations_file = Absent
             \/ load_audio_segments = Raised
             \/ metadata_file = Absent
          THEN Raised
          ELSE [kind |-> "loaded",
                slides |-> [i \in DOMAIN slides_file.data |-> Slide_from_dict(slides_file.data[i])],
                narrations |-> [i \in DOMAIN narrations_file.data |-> SlideNarration_from_dict(narrations_file.data[i])],
                audio_segments |-> load_audio_segments.v,
                metadata |-> metadata_file.data]
    /\ UNCHANGED <<storeConfig, st_session, slides_file, narrations_file,
                   audio_file, metadata_file>>

StoreInit ==
    /\ st_session = NoSession
    /\ slides_file = Absent
    /\ narrations_file = Absent
    /\ audio_file = Absent
    /\ metadata_file = Absent
    /\ st_result = NoResult

StoreNext ==
    \/ SavePresentationData
    \/ RemoveAudioDocument
    \/ LoadPresentationData

\* ====================================================================
\* The prompts of the Question-Answer handler (core/question_handler.py)
\* ====================================================================
\* What no step of the question handler changes.
qaConfig == <<num_segments, auto_advance, current_slide, is_playing, is_paused,
              in_question_mode, stop_event, pause_event, workers, music,
              busy_when_paused, thread_cap, h_last, h_q, h_qp, h_run, audioVars, benchVars,
              storeVars>>

QAQuestions == {"q1", "q2", "q3"}

\* Mutant: the first entries instead of the last ones.
recent_from_start(history) ==
    SubSeq(history, 1,
           IF Len(history) > PromptWindow THEN PromptWindow ELSE Len(history))

\* recent = self.conversation_history[-3:]
recent(history) ==
    SubSeq(history,
           IF Len(history) > PromptWindow THEN Len(history) - PromptWindow + 1 ELSE 1,
           Len(history))

\* _format_conversation_history: the entries formatted into the prompt, in
\* the order they are joined; none stands for "No previous questions.".
format_conversation_history == recent(conversation_history)

\* answer_question: the prompt is built, the request is made, and when it
\* returns the QuestionAnswer is appended; when it raises nothing is stored.
QAAnswer(question) ==
    /\ prompt_history' = format_conversation_history
    /\ \E returned \in BOOLEAN :
          IF returned
          THEN /\ Len(conversation_history) < MaxQuestions
               /\ answer_question(question)
               /\ h_asked' = Append(h_asked, question)
          ELSE UNCHANGED <<conversation_history, h_asked>>
    /\ UNCHANGED qaConfig

QAClearHistory ==
    /\ clear_history
    /\ h_asked' = <<>>
    /\ UNCHANGED <<qaConfig, prompt_history>>

QAInit ==
    /\ prompt_history = <<>>
    /\ h_asked = <<>>

QANext ==
    \/ \E question \in QAQuestions : QAAnswer(question)
    \/ QAClearHistory

\* ====================================================================
\* Specifications
\* ====================================================================
\* In each specification the other subsystems do not run: their variables
\* keep one fixed value.
SyncOff ==
    /\ num_segments = 1 /\ auto_advance = TRUE /\ busy_when_paused = FALSE
    /\ thread_cap = MaxWorkers
    /\ current_slide = 1 /\ is_playing = FALSE /\ is_paused = FALSE
    /\ in_question_mode = FALSE /\ stop_event = FALSE /\ pause_event = FALSE
    /\ workers = EmptyBag /\ music = "idle" /\ conversation_history = <<>>
    /\ h_last = [op |-> "init", pre |-> NoPre, k |-> 0] /\ h_q = 0
    /\ h_qp = "none" /\ h_run = [slides |-> <<>>, ends |-> 0]

AudioOff ==
    /\ test_mode = TRUE /\ num_narrations = 1 /\ main_pc = "off"
    /\ audio_ready = <<FALSE>> /\ audio_generation_complete = FALSE
    /\ current_slide_idx = 0
    /\ presentation_loaded = FALSE /\ bg_pc = "idle" /\ bg_idx = 1
    /\ bg_complete = FALSE /\ bg_fatal = FALSE /\ ready_flags = <<FALSE>>
    /\ segments_list = {} /\ progress_file = Absent /\ audio_files = {}
    /\ audio_doc = Absent /\ h_failed = {} /\ h_attempted = {}
    /\ h_written = Absent /\ h_loaded = FALSE

SyncSpecInit == SyncInit /\ AudioOff /\ BenchInit /\ StoreInit /\ QAInit
SpecSync == SyncSpecInit /\ [][SyncNext]_vars

AudioSpecInit == AudioInit /\ SyncOff /\ BenchInit /\ StoreInit /\ QAInit
SpecAudio == AudioSpecInit /\ [][AudioNext]_vars
SpecNav == AudioSpecInit /\ [][NavStep]_vars

\* The same steps, with both threads scheduled: the main thread keeps running
\* process_presentation and its wait loop, the page keeps being rendered
\* while audio is being generated (a refresh or any interaction reruns it),
\* and the daemon thread keeps running generate_audio_background.
SpecAudioFair ==
    /\ AudioSpecInit
    /\ [][AudioNext]_vars
    /\ WF_vars(MainStart \/ MainPollFirst \/ MainSaveData)
    /\ WF_vars(PagePoll)
    /\ WF_vars(BgInit \/ BgSynth \/ BgSaveOpen \/ BgSaveWrite \/ BgSaveAudioDoc)

BenchSpecInit == BenchInit /\ SyncOff /\ AudioOff /\ StoreInit /\ QAInit
SpecBench == BenchSpecInit /\ [][BenchNext]_vars

StoreSpecInit == StoreInit /\ SyncOff /\ AudioOff /\ BenchInit /\ QAInit
SpecStore == StoreSpecInit /\ [][StoreNext]_vars

QASpecInit == QAInit /\ SyncOff /\ AudioOff /\ BenchInit /\ StoreInit
SpecQA == QASpecInit /\ [][QANext]_vars

ThreadsSpecInit == ThreadsInit /\ AudioOff /\ BenchInit /\ StoreInit /\ QAInit
SpecThreads == ThreadsSpecInit /\ [][ThreadsNext]_vars

AutoSpecInit == AutoInit /\ AudioOff /\ BenchInit /\ StoreInit /\ QAInit
SpecAuto == AutoSpecInit /\ [][AutoNext]_vars /\ AutoFairness

\* ====================================================================
\* Properties of the background audio generation (checked under SpecAudio)
\* ====================================================================

\* C2: when the batch finishes, the progress record the worker wrote has
\* ready[i] true exactly for the slides whose synthesis did not raise and
\* complete true, every slide was attempted, and the progress file holds
\* that record unless the page has already removed it.
BatchRecordsFailures ==
    (bg_pc = "done" /\ ~bg_fatal)
        => /\ h_attempted = Slides
           /\ h_written = ProgressRecord([i \in Slides |-> i \notin h_failed], TRUE)
           /\ progress_file \in {Absent, h_written}

\* The batch over three slides finished with slide 2 failed, and the record
\* is on disk.
BatchWithMiddleFailure ==
    /\ bg_pc = "done"
    /\ num_narrations = 3
    /\ h_failed = {2}
    /\ progress_file = ProgressRecord(<<TRUE, FALSE, TRUE>>, TRUE)

\* The ready flags of the worker, of the progress file and of the page all
\* belong to slides whose clip is on disk.
ReadyFlagsHaveClips ==
    \A i \in Slides :
        /\ ready_flags[i] => i \in audio_files
        /\ (IsRecord(progress_file) /\ progress_file.ready[i]) => i \in audio_files
        /\ audio_ready[i] => i \in audio_files

\* C3 as stated: no reachable state has a ready flag true while the clip's
\* file does not exist.
ReadyOnlyAfterClipWritten == ReadyFlagsHaveClips

\* C3 amended: the same, for a session generated outside test mode and until
\* a saved presentation is loaded.
ReadyOnlyAfterClipWrittenWhenGenerated ==
    (~test_mode /\ ~h_loaded) => ReadyFlagsHaveClips

\* The page shows slides 1 and 3 ready and slide 2, whose clip is missing, not.
PageShowsWrittenClipsReady ==
    /\ ~test_mode /\ ~h_loaded
    /\ num_narrations = 3
    /\ audio_ready = <<TRUE, FALSE, TRUE>>
    /\ audio_files = {1, 3}

\* C11: the clips the worker has recorded belong to slides with a narration,
\* are never more than the narrations, and are as many as the narrations
\* once the worker has written the progress record with complete = true.
ClipCountMatchesNarrations ==
    /\ segments_list \subseteq Slides
    /\ Cardinality(segments_list) <= num_narrations
    /\ (IsRecord(h_written) /\ h_written.complete)
           => Cardinality(segments_list) = num_narrations

\* C20: whenever the worker has written a progress record with complete =
\* true, the synthesis call has been made for every one of the narrations.
CompleteOnlyAfterAllAttempted ==
    (IsRecord(h_written) /\ h_written.complete) => h_attempted = Slides

\* C21: no poll of the progress file reads it while it is partly written,
\* and every record the worker writes is in the file when the write ends.
PollNeverSeesPartialRecord ==
    [][/\ (MainPollFirst \/ PagePoll) => progress_file # Partial
       /\ BgSaveWrite => progress_file' = h_written']_vars

\* C23: once the background worker has terminated, the main thread's wait for
\* the first slide ends, whether or not slide 1 became ready.
MainWaitEndsWithWorker == (bg_pc = "done") ~> (main_pc # "wait_first")

\* C24: once the worker has ended and the main thread has saved the session,
\* the audio document holds every clip that was generated, in whichever order
\* the two wrote it.
AudioDocumentHoldsEveryClip ==
    (bg_pc = "done" /\ main_pc = "page")
        => /\ audio_doc.kind = "document"
           /\ segments_list \subseteq audio_doc.slides

\* C29: once the worker has written complete = true, the page that keeps
\* polling eventually has audio_generation_complete set and the progress file
\* deleted (unless the saved session was loaded instead, which sets the flag
\* without polling).
CompleteEventuallySeen ==
    (main_pc = "page" /\ IsRecord(h_written) /\ h_written.complete)
        ~> ((audio_generation_complete /\ progress_file = Absent) \/ h_loaded)

\* C30: outside test mode, every step that moves the page's slide index
\* moves it to a slide whose audio_ready flag is set.
IndexMovesToReadySlide ==
    [][(~test_mode /\ current_slide_idx' # current_slide_idx)
          => audio_ready'[current_slide_idx' + 1]]_vars

\* ====================================================================
\* Properties of the coordinator (checked under SpecSync)
\* ====================================================================

\* C1: InterruptForQuestion issued while Playing on slide k, then
\* ResumeAfterQuestion with no other command in between: the state right
\* after the resume is Playing and current_slide is still k, whatever the
\* playback worker did in between.
InterruptThenResumeKeepsSlide ==
    (h_last.op = "resume_q" /\ h_last.k # 0)
        => (Playing /\ current_slide = h_last.k)

\* C4: Pause, Resume, InterruptForQuestion and ResumeAfterQuestion issued in
\* Idle leave is_playing, is_paused and in_question_mode all false.
IdleOnlyPlayEnters ==
    (/\ h_last.op \in {"pause", "resume", "interrupt", "resume_q"}
     /\ h_last.pre = NoPre)
        => Idle

\* C5: right after a Stop event the coordinator is Idle (all three flags
\* false) and the Question-Answer history is empty.
StopReachesIdle ==
    h_last.op = "stop" => (Idle /\ conversation_history = <<>>)

\* C6: current_slide stays within [1, N] under NextSlide, PreviousSlide and
\* GoToSlide(n) for any integer n (and under the worker); NextSlide at N and
\* PreviousSlide at 1 leave the index unchanged.
SlideIndexClamped ==
    /\ [](current_slide \in 1 .. num_segments)
    /\ [][/\ (NextSlide /\ current_slide = num_segments)
                => current_slide' = current_slide
          /\ (PreviousSlide /\ current_slide = 1)
                => current_slide' = current_slide]_vars

\* NextSlide was issued at the last index of a deck of two or more clips.
NextAtLastSlide ==
    /\ h_last.op = "next"
    /\ num_segments >= 2
    /\ h_last.k = num_segments
    /\ current_slide = num_segments

\* C7: Pause issued while is_paused is already true changes none of
\* current_slide, is_playing, is_paused, in_question_mode.
PauseWhilePausedNoop ==
    [][(Pause /\ is_paused)
          => UNCHANGED <<current_slide, is_playing, is_paused, in_question_mode>>]_vars

\* Pause was issued in Paused.
PausedThenPause ==
    /\ h_last.op = "pause"
    /\ h_last.pre = [playing |-> TRUE, paused |-> TRUE, qmode |-> FALSE]
    /\ Paused

\* C15: resuming after a question clears the question-mode flag and brings
\* the coordinator back to the state the interrupt was issued in: Playing
\* after an interrupt while Playing, Paused after an interrupt while Paused.
ResumeAfterQuestionRestoresIntent ==
    [][(ResumeAfterQuestion \/ (HandleResume /\ in_question_mode))
          => /\ ~in_question_mode'
             /\ (h_qp = "Playing" => Playing')
             /\ (h_qp = "Paused" => Paused')]_vars

\* C16: question mode is a kind of pause: in_question_mode implies
\* is_paused, and a Resume issued in question mode leaves is_paused true.
QuestionModeIsPaused ==
    /\ in_question_mode => is_paused
    /\ (h_last.op = "resume" /\ h_last.pre.qmode /\ h_last.pre.paused) => is_paused

\* C25: at most one playback thread is executing _playback_loop at any time,
\* whatever Play and Stop events are issued.
AtMostOnePlaybackWorker == BagCardinality(workers) <= 1

\* C26: while the coordinator is paused (is_playing and is_paused, in
\* question mode or not) the playback worker neither sets current_slide, with
\* its slide-changed notification, nor ends the presentation.
PausedWorkerHolds ==
    [][(\E w \in BagToSet(workers) : WorkerSetSlide(w) \/ WorkerFinish(w))
          => ~(is_playing /\ is_paused)]_vars

\* C27: when the playback worker sets current_slide it moves it by exactly
\* +1 (an automatic advance), or leaves it as Play set it on the first clip:
\* it never replaces an index that navigation set by its own loop position.
AutoAdvanceStepsFromCurrent ==
    [][\A w \in BagToSet(workers) :
          WorkerSetSlide(w) =>
              current_slide' = IF w.idx = 1 THEN current_slide
                               ELSE current_slide + 1]_vars

\* C28: the pause event the worker looks at is set exactly when is_paused is
\* true.
PauseEventMatchesFlag == pause_event = is_paused

\* ====================================================================
\* Properties of the benchmark log (checked under SpecBench)
\* ====================================================================

FinalFileNeverPartial == final_file.kind \in {"absent", "snapshot"}

\* C10 as stated: whatever the step, unless it is a reset, the list before
\* it is a prefix of the list after it.
EventsAppendOnly == [][Reset \/ IsPrefix(events, events')]_vars

\* C10 amended: the same, unless the step is a reset or a load_json, which
\* replaces the list by the events of the file it reads.
EventsAppendOnlyExceptLoad ==
    [][Reset \/ LoadJson("main") \/ IsPrefix(events, events')]_vars

\* A second event has been appended after a snapshot of the first was saved.
AppendedAfterSnapshot ==
    /\ Len(events) = 2
    /\ hb_last.op \in {"end_timer", "record_event"}
    /\ final_file.kind = "snapshot"
    /\ final_file.events = SubSeq(events, 1, 1)

\* C22: no failure to write the snapshot file reaches the caller of
\* end_timer or record_event: what an auto-persist's save_json raises stays
\* inside the tracker.
PersistFailureStaysInside ==
    hb_last # [op |-> "persist_if_configured", raised |-> TRUE]

\* ====================================================================
\* Properties of the saved session (checked under SpecStore)
\* ====================================================================

\* C12: a session saved with a non-empty list of audio clips and loaded back
\* gives slides, narrations, audio clips and metadata equal to those saved.
SaveLoadRoundTrip ==
    (/\ st_result.kind = "loaded"
     /\ audio_file # Absent
     /\ st_session.audio_segments # <<>>)
        => /\ st_result.slides = st_session.slides
           /\ st_result.narrations = st_session.narrations
           /\ st_result.audio_segments = st_session.audio_segments
           /\ st_result.metadata = st_session.metadata

\* C13: loading a session whose audio document is missing while the slides,
\* narrations and metadata documents exist does not raise and returns an
\* empty list of audio clips with the slides, narrations and metadata.
LoadWithoutAudioDocument ==
    (/\ st_result # NoResult
     /\ audio_file = Absent
     /\ slides_file # Absent /\ narrations_file # Absent /\ metadata_file # Absent)
        => /\ st_result.kind = "loaded"
           /\ st_result.audio_segments = <<>>
           /\ Len(st_result.slides) = Len(st_session.slides)
           /\ \A i \in 1 .. Len(st_result.slides) : st_result.slides[i].slide_number = i
           /\ st_result.narrations = st_session.narrations
           /\ st_result.metadata = st_session.metadata

\* A session of two slides saved with its clips was loaded after its audio
\* document was removed.
LoadedWithoutAudioDocument ==
    /\ st_result.kind = "loaded"
    /\ audio_file = Absent
    /\ Len(st_session.audio_segments) = 2
    /\ Len(st_result.slides) = 2
    /\ st_result.audio_segments = <<>>

\* ====================================================================
\* Properties of the question handler's prompts (checked under SpecQA)
\* ====================================================================

\* C14: the history holds the questions answered since the last
\* clear_history, in asking order, and the prompt built for a question
\* includes exactly the last min(3, k) of the k entries stored when it is
\* built, oldest first.
HistoryKeptPromptLastThree ==
    /\ [](conversation_history = h_asked)
    /\ [][\A question \in QAQuestions :
            QAAnswer(question) =>
                LET k == Len(h_asked)
                    m == IF k < 3 THEN k ELSE 3
                IN prompt_history' = [i \in 1 .. m |-> h_asked[k - m + i]]]_vars

\* The fifth question was asked after four answers: the prompt holds the last
\* three of them and the first is still stored.
PromptAfterFourAnswers ==
    /\ h_asked = <<"q1", "q2", "q2", "q1">>
    /\ conversation_history = h_asked
    /\ prompt_history = <<"q2", "q2", "q1">>

\* C18: with auto-advance off, no step changes current_slide unless it is
\* Play, NextSlide, PreviousSlide or GoToSlide; in particular the playback
\* worker and the end of a clip do not.
ManualIndexChangesOnlyByNavigation ==
    [][(~auto_advance /\ current_slide' # current_slide)
          => \/ Play
             \/ NextSlide
             \/ PreviousSlide
             \/ \E n \in SlideInputs : GoToSlide(n)]_vars

\* C19: Play sets current_slide to 1 whatever it was, is_playing to true and
\* is_paused to false (Playing, when issued from Idle), and starts one
\* playback worker at clip 1.
PlayStartsAtFirstClip ==
    [][Play => /\ current_slide' = 1
               /\ is_playing' /\ ~is_paused'
               /\ (Idle => Playing')
               /\ BagIn([pc |-> "loop", idx |-> 1], workers')
               /\ BagCardinality(workers') = BagCardinality(workers) + 1]_vars

\* Play was issued with the index at 2.
PlayedFromSecondSlide ==
    /\ h_last.op = "play"
    /\ h_last.k = 2
    /\ current_slide = 1
    /\ is_playing /\ ~is_paused

\* ====================================================================
\* Properties of uninterrupted auto-advance (checked under SpecAuto)
\* ====================================================================

\* C17: after Play with auto-advance on and nothing else asked, the worker
\* sets current_slide to 1, 2, ..., N in this order, one notification each,
\* and then is_playing becomes false and the end of the presentation is
\* notified, once.
AutoAdvancePlaysThrough ==
    /\ [](/\ IsPrefix(h_run.slides, [i \in 1 .. num_segments |-> i])
          /\ h_run.ends <= 1
          /\ h_run.ends = 1 => /\ h_run.slides = [i \in 1 .. num_segments |-> i]
                               /\ ~is_playing)
    /\ (h_last.op = "play") ~> (h_run.ends = 1 /\ ~is_playing)

\* Two clips have been played through and the end has been notified.
PlayedThroughTwoClips ==
    /\ num_segments = 2
    /\ h_run = [slides |-> <<1, 2>>, ends |-> 1]
    /\ ~is_playing
    /\ workers = EmptyBag
====
